---- MODULE Spec2Model ----
(***************************************************************************)
(* State-machine model of the CSV BaseScanner (ScannerResult,              *)
(* ScannerPosition, BaseScanner) of src/unnamed/part_002.                  *)
(*                                                                         *)
(* One scanner is modelled together with the buffer manager it reads       *)
(* from.  The scanner is either the base class itself (derived = FALSE),   *)
(* whose Process / FinalizeChunkProcess / ParseChunk / GetResult throw, or *)
(* a concrete scan mode (derived = TRUE) that overrides Process and        *)
(* FinalizeChunkProcess.  The overriding bodies are not part of the        *)
(* sources; they are modelled from the design document (sections 4.1, 4.3  *)
(* and 4.4) and are marked as such where they are defined.                 *)
(***************************************************************************)
EXTENDS Integers, Sequences, FiniteSets, TLC

VARIABLES
    buffer_manager,     \* the CSVBufferManager: [file_count, buffer_count, last_size, done]
    derived,            \* TRUE: a concrete scan mode overriding Process/FinalizeChunkProcess
    boundary,           \* BaseScanner::boundary  [file_idx, buffer_idx, buffer_pos, end_pos]
    pos,                \* BaseScanner::pos       [file_id, buffer_id, pos, done]
    cur_buffer_handle,  \* BaseScanner::cur_buffer_handle [present, buffer_idx]
    states,             \* BaseScanner::states, the byte-level automaton's current state
    initialized,        \* BaseScanner::initialized
    result_position,    \* ScannerResult::result_position
    pc,                 \* position inside ParseChunkInternal: "idle", "entry", "process", "finalize"
    callNo,             \* number of ParseChunkInternal calls started so far (capped)
    trace,              \* the virtual calls made by the current / last ParseChunkInternal call
    ret                 \* outcome of the last operation: [op, val]

scannerVars == <<buffer_manager, derived, boundary, pos, cur_buffer_handle, states,
                 initialized, result_position, pc, callNo, trace, ret>>

\* BaseScanner::ColumnTypesError (src/unnamed/part_002)
VARIABLES
    sql_types_per_column,   \* the declared column names (keys of the case-insensitive map)
    names,                  \* the column names found in the file
    exception               \* the outcome of ColumnTypesError: [called, msg]

columnVars == <<sql_types_per_column, names, exception>>

\* Connect::SetConnection and the instance cache (src/unnamed/part_000)
VARIABLES
    instance_cache,         \* database path -> cached database instance (0: none)
    env_db,                 \* dbc->env->db of the environment (0: none)
    dbcs,                   \* connection handle -> [database, conn]
    request,                \* the last GetOrCreateInstance request: [database, cache_instance]
    next_db                 \* the next database instance to be created

cacheVars == <<instance_cache, env_db, dbcs, request, next_db>>

\* MergeJoinInner (src/src/execution/merge_join/merge_join_inner.cpp)
VARIABLES
    op,                     \* the comparison: "Equality", "LessThan", "LessThanEquals"
    l,                      \* MergeInfo l: [data, sel_vector, pos, count]
    r,                      \* MergeInfo r: [data, sel_vector, pos, count]
    result_count,           \* result_count of the running Operation call
    result,                 \* the (l.result[i], r.result[i]) slots written by the running call
    mpc,                    \* position inside Operation: "idle", "loop", "back"
    mret,                   \* the last return value of Operation (-1 before the first)
    emitted,                \* all pairs output by the calls so far
    unsafe                  \* an out-of-range read or write has happened

mergeVars == <<op, l, r, result_count, result, mpc, mret, emitted, unsafe>>

\* ODBC handles and environment attributes (src/unnamed/part_000)
VARIABLES
    h_env,                  \* the environment handle is allocated
    h_dbc,                  \* connection handle -> [live, vec_stmt_ref]
    h_stmt,                 \* statement handle -> [live, dbc, desc]
    h_desc,                 \* descriptor handle -> [live, dbc]
    h_ret,                  \* the last handle call: [op, type, null, code]
    odbc_version,           \* env->odbc_version (0: not set)
    attr_ret                \* the last SQLSetEnvAttr call: [env, value, major, extracted, code]

odbcVars == <<h_env, h_dbc, h_stmt, h_desc, h_ret, odbc_version, attr_ret>>

vars == <<scannerVars, columnVars, cacheVars, mergeVars, odbcVars>>

\* the parts of the state a specification does not use stay at these values
ScannerUnused ==
    /\ buffer_manager = [file_count |-> 1, buffer_count |-> 1, last_size |-> 0, done |-> FALSE]
    /\ derived = FALSE
    /\ boundary = [file_idx |-> 0, buffer_idx |-> 0, buffer_pos |-> 0, end_pos |-> 0]
    /\ pos = [pos |-> 0, buffer_id |-> 0, file_id |-> 0, done |-> FALSE]
    /\ cur_buffer_handle = [present |-> TRUE, buffer_idx |-> 0]
    /\ states = "EMPTY_LINE"
    /\ initialized = FALSE
    /\ result_position = 0
    /\ pc = "unused"
    /\ callNo = 0
    /\ trace = <<>>
    /\ ret = [op |-> "none", val |-> "none"]

ColumnUnused ==
    /\ sql_types_per_column = {}
    /\ names = <<>>
    /\ exception = [called |-> FALSE, msg |-> <<>>]

CacheUnused ==
    /\ instance_cache = <<>>
    /\ env_db = 0
    /\ dbcs = <<>>
    /\ request = [database |-> "", cache_instance |-> FALSE]
    /\ next_db = 0

HandleUnused ==
    /\ h_env = FALSE
    /\ h_dbc = <<>>
    /\ h_stmt = <<>>
    /\ h_desc = <<>>
    /\ h_ret = [op |-> "none", type |-> "none", null |-> TRUE, code |-> "none"]

AttrUnused ==
    /\ odbc_version = 0
    /\ attr_ret = [env |-> 0, value |-> 0, major |-> 0, extracted |-> 0, code |-> "none"]

OdbcUnused == HandleUnused /\ AttrUnused

MergeUnused ==
    /\ op = "none"
    /\ l = [data |-> <<>>, sel_vector |-> <<>>, pos |-> 0, count |-> 0]
    /\ r = [data |-> <<>>, sel_vector |-> <<>>, pos |-> 0, count |-> 0]
    /\ result_count = 0
    /\ result = <<>>
    /\ mpc = "unused"
    /\ mret = -1
    /\ emitted = <<>>
    /\ unsafe = FALSE

----------------------------------------------------------------------------
(* Bounds of the model *)

\* number of files the buffer manager may hold
MaxFiles == 2
\* number of buffers per file
MaxBuffers == 2
\* size of a full buffer; the last buffer of a file holds 0..BufferSize bytes
BufferSize == 2
\* capacity of the result accumulator
Capacity == 1
\* ParseChunkInternal calls that are counted
MaxCalls == 2

\* states of the byte-level automaton that the model distinguishes
CSVStates == {"EMPTY_LINE", "QUOTED"}

Min(a, b) == IF a < b THEN a ELSE b

----------------------------------------------------------------------------
(* The buffer manager (external collaborator, design document section 6) *)

\* file_count()
FileCount(bm) == bm.file_count

\* is_source_exhausted()
Done(bm) == bm.done

\* buffer_count_for_file(file_index): the number of buffers of the file
CachedBufferPerFile(bm, file_idx) == bm.buffer_count

\* actual_size of buffer buffer_idx: full buffers, then a shorter last one
ActualSize(bm, buffer_idx) ==
    IF buffer_idx = bm.buffer_count - 1 THEN bm.last_size ELSE BufferSize

\* get_buffer(file_index, buffer_index): a handle, absent past the last buffer
GetBuffer(bm, file_idx, buffer_idx) ==
    IF file_idx < bm.file_count /\ buffer_idx < bm.buffer_count
    THEN [present |-> TRUE, buffer_idx |-> buffer_idx]
    ELSE [present |-> FALSE, buffer_idx |-> 0]

----------------------------------------------------------------------------
(* ScannerResult, ScannerPosition, ScannerBoundary *)

\* ScannerResult::Size
Size(rp) == rp

\* faulty variant of Empty: takes a result of one entry for empty
Empty_OffByOne(rp) == rp <= 1

\* ScannerResult::Empty
Empty(rp) == rp = 0

\* ScannerBoundary::InBoundary(file_idx, buffer_id, buffer_pos)
BoundaryInBoundary(b, file_id, buffer_id, p) ==
    /\ b.file_idx = file_id
    /\ b.buffer_idx = buffer_id
    /\ p >= b.buffer_pos
    /\ p < b.end_pos

\* ScannerPosition::InBoundary
InBoundary(position, b) ==
    BoundaryInBoundary(b, position.file_id, position.buffer_id, position.pos)

\* ScannerBoundary::SetEndPos
SetEndPos(b, e) == [b EXCEPT !.end_pos = e]

----------------------------------------------------------------------------
(* BaseScanner *)

\* BaseScanner::BaseScanner: the member boundary is copy-initialised from
\* boundary_p in the initialiser list; the clamp of the end position is then
\* applied to the by-value parameter boundary_p, from which pos is read.
BaseScanner(bm, boundary_p) ==
    LET handle  == GetBuffer(bm, boundary_p.file_idx, boundary_p.buffer_idx)
        actual  == ActualSize(bm, handle.buffer_idx)
        clamped == SetEndPos(boundary_p,
                             IF boundary_p.end_pos > actual THEN actual
                             ELSE boundary_p.end_pos)
    IN  [boundary          |-> boundary_p,
         cur_buffer_handle |-> handle,
         pos               |-> [pos       |-> clamped.buffer_pos,
                                buffer_id |-> clamped.buffer_idx,
                                file_id   |-> clamped.file_idx,
                                done      |-> FALSE]]

\* faulty variant of Finished: asks whether the source is exhausted before it
\* looks at the number of files
Finished_DoneFirst(bm, p, handle) ==
    IF p.done THEN "true"
    ELSE IF ~handle.present THEN "true"
    ELSE IF ~bm.done THEN "false"
    ELSE IF bm.file_count > 1 THEN "InternalException"
    ELSE IF p.buffer_id # bm.buffer_count THEN "false"
    ELSE IF p.pos + 1 = ActualSize(bm, handle.buffer_idx) THEN "true"
    ELSE "false"

\* faulty variant of Finished: looks at the number of files before the done flag
Finished_FilesFirst(bm, p, handle) ==
    IF bm.file_count > 1 THEN "InternalException"
    ELSE IF p.done THEN "true"
    ELSE IF ~handle.present THEN "true"
    ELSE IF ~bm.done THEN "false"
    ELSE IF p.buffer_id # bm.buffer_count THEN "false"
    ELSE IF p.pos + 1 = ActualSize(bm, handle.buffer_idx) THEN "true"
    ELSE "false"

\* BaseScanner::Finished: "true", "false" or "InternalException".  Offsets are
\* idx_t; pos + 1 stays far below 2^64 for every offset of the model.
Finished(bm, p, handle) ==
    IF p.done THEN "true"
    ELSE IF ~handle.present THEN "true"
    ELSE IF FileCount(bm) > 1 THEN "InternalException"
    ELSE IF ~Done(bm) THEN "false"
    ELSE IF p.buffer_id # CachedBufferPerFile(bm, p.file_id) THEN "false"
    ELSE IF p.pos + 1 = ActualSize(bm, handle.buffer_idx) THEN "true"
    ELSE "false"

\* faulty variant of Reset: rewinds the offset but not the buffer index
Reset_KeepsBufferId(p, b) == [p EXCEPT !.pos = b.buffer_pos]

\* faulty variant of Reset: rewinds to the start of the buffer, not of the boundary
Reset_ToBufferStart(p, b) == [p EXCEPT !.buffer_id = b.buffer_idx, !.pos = 0]

\* BaseScanner::Reset
Reset(p, b) == [p EXCEPT !.buffer_id = b.buffer_idx, !.pos = b.buffer_pos]

\* BaseScanner::ParseChunk (base class)
ParseChunk == "InternalException"

\* BaseScanner::GetResult (base class)
GetResult == "InternalException"

\* BaseScanner::Initialize: states.Initialize(CSVState::EMPTY_LINE); the
\* initialized flag is not written
Initialize(st, init) == [states |-> "EMPTY_LINE", initialized |-> init]

\* faulty variant of the base Process: returns instead of throwing
Process_Returns == "ok"

\* BaseScanner::Process (base class)
Process == "InternalException"

\* BaseScanner::FinalizeChunkProcess (base class)
FinalizeChunkProcess == "InternalException"

----------------------------------------------------------------------------
(* Process and FinalizeChunkProcess of a concrete scan mode.  Modelled     *)
(* from the design document: Process advances the position byte by byte,   *)
(* crosses into the next buffer when the current one is exhausted, and     *)
(* stops when the result is full, the boundary is exhausted or the file is *)
(* exhausted.                                                              *)

\* the offset at which a scan standing at p with buffer handle h must stop
\* or cross: the boundary's end inside the boundary's buffer, the buffer's
\* actual size elsewhere
Limit(bm, p, h, bnd) ==
    IF p.file_id = bnd.file_idx /\ p.buffer_id = bnd.buffer_idx
    THEN Min(bnd.end_pos, ActualSize(bm, h.buffer_idx))
    ELSE ActualSize(bm, h.buffer_idx)

\* the places a scan standing at p may stop at: advance() within the buffer,
\* crossBuffer() when the buffer is exhausted; terminal marks the places where
\* the boundary or the file is exhausted
RECURSIVE Ahead(_, _, _, _)
Ahead(bm, p, h, bnd) ==
    IF ~h.present
    THEN {[pos |-> p, handle |-> h, terminal |-> TRUE]}
    ELSE LET size  == ActualSize(bm, h.buffer_idx)
             limit == Limit(bm, p, h, bnd)
             top   == IF limit > p.pos THEN limit ELSE p.pos
             inB   == p.file_id = bnd.file_idx /\ p.buffer_id = bnd.buffer_idx
             here  == {[pos      |-> [p EXCEPT !.pos = q],
                        handle   |-> h,
                        terminal |-> (inB /\ q >= bnd.end_pos)] : q \in p.pos..top}
             nh    == GetBuffer(bm, p.file_id, p.buffer_id + 1)
             beyond == IF top >= size
                       THEN IF nh.present
                            THEN Ahead(bm, [p EXCEPT !.buffer_id = @ + 1, !.pos = 0], nh, bnd)
                            ELSE {[pos |-> [p EXCEPT !.pos = top], handle |-> nh,
                                   terminal |-> TRUE]}
                       ELSE {}
         IN  here \cup beyond

\* Process of a concrete scan mode
DerivedProcess ==
    IF pos.done
    THEN UNCHANGED <<buffer_manager, pos, cur_buffer_handle, states, result_position>>
    ELSE \E o \in Ahead(buffer_manager, pos, cur_buffer_handle, boundary),
            st \in CSVStates,
            k \in 0..(Capacity - result_position),
            d \in BOOLEAN :
            /\ (result_position + k = Capacity) \/ o.terminal
            /\ d => o.terminal
            /\ ~o.handle.present => d
            /\ pos' = [o.pos EXCEPT !.done = d]
            /\ cur_buffer_handle' = o.handle
            /\ states' = st
            /\ result_position' = result_position + k
            /\ buffer_manager' = IF o.handle.present THEN buffer_manager
                                 ELSE [buffer_manager EXCEPT !.done = TRUE]

\* FinalizeChunkProcess of a concrete scan mode: flushes a pending field
DerivedFinalizeChunkProcess ==
    /\ result_position' \in {result_position, Min(result_position + 1, Capacity)}
    /\ UNCHANGED <<buffer_manager, pos, cur_buffer_handle, states>>

----------------------------------------------------------------------------
(* Initial states: a buffer manager and a scanner constructed on a boundary. *)
(* The boundary handed to the constructor names an existing buffer, starts   *)
(* inside it (or at its end) and has start <= end; its end may lie beyond    *)
(* the buffer's actual size, the case the constructor's clamp is written     *)
(* for.  The members without an initialiser in the constructor start as     *)
(* their declarations leave them: pos.done and initialized false, the       *)
(* result empty, the automaton state not yet set (any state).               *)

Boundaries(bm) ==
    {[file_idx |-> f, buffer_idx |-> b, buffer_pos |-> s, end_pos |-> e] :
        f \in 0..(bm.file_count - 1), b \in 0..(bm.buffer_count - 1),
        s \in 0..BufferSize, e \in 0..(BufferSize + 1)}

Init ==
    \E fc \in 1..MaxFiles, bc \in 1..MaxBuffers, ls \in 0..BufferSize :
        LET bm == [file_count |-> fc, buffer_count |-> bc, last_size |-> ls, done |-> FALSE]
        IN  \E boundary_p \in Boundaries(bm) :
                LET sc == BaseScanner(bm, boundary_p)
                IN  /\ boundary_p.buffer_pos <= boundary_p.end_pos
                    /\ boundary_p.buffer_pos <= ActualSize(bm, boundary_p.buffer_idx)
                    /\ buffer_manager = bm
                    /\ boundary = sc.boundary
                    /\ pos = sc.pos
                    /\ cur_buffer_handle = sc.cur_buffer_handle
    /\ derived \in BOOLEAN
    /\ states \in CSVStates
    /\ initialized = FALSE
    /\ result_position = 0
    /\ pc = "idle"
    /\ callNo = 0
    /\ trace = <<>>
    /\ ret = [op |-> "BaseScanner", val |-> "ok"]
    /\ ColumnUnused /\ CacheUnused /\ MergeUnused /\ OdbcUnused

----------------------------------------------------------------------------
(* Operations *)

\* a call of Finished()
CallFinished ==
    /\ pc = "idle"
    /\ UNCHANGED <<columnVars, cacheVars, mergeVars, odbcVars>>
    /\ ret' = [op |-> "Finished", val |-> Finished(buffer_manager, pos, cur_buffer_handle)]
    /\ UNCHANGED <<buffer_manager, derived, boundary, pos, cur_buffer_handle, states,
                   initialized, result_position, pc, callNo, trace>>

\* faulty variant of a Reset() call: also clears the result accumulator
CallReset_ClearsResult ==
    /\ pc = "idle"
    /\ UNCHANGED <<columnVars, cacheVars, mergeVars, odbcVars>>
    /\ pos' = Reset(pos, boundary)
    /\ result_position' = 0
    /\ ret' = [op |-> "Reset", val |-> "ok"]
    /\ UNCHANGED <<buffer_manager, derived, boundary, cur_buffer_handle, states,
                   initialized, pc, callNo, trace>>

\* a call of ScannerResult::Size() on the scanner's result
CallSize ==
    /\ pc = "idle"
    /\ UNCHANGED <<columnVars, cacheVars, mergeVars, odbcVars>>
    /\ ret' = [op |-> "Size", val |-> ToString(Size(result_position))]
    /\ UNCHANGED <<buffer_manager, derived, boundary, pos, cur_buffer_handle, states,
                   initialized, result_position, pc, callNo, trace>>

\* a call of ScannerResult::Empty() on the scanner's result
CallEmpty ==
    /\ pc = "idle"
    /\ UNCHANGED <<columnVars, cacheVars, mergeVars, odbcVars>>
    /\ ret' = [op |-> "Empty", val |-> IF Empty(result_position) THEN "true" ELSE "false"]
    /\ UNCHANGED <<buffer_manager, derived, boundary, pos, cur_buffer_handle, states,
                   initialized, result_position, pc, callNo, trace>>

\* a call of Reset()
CallReset ==
    /\ pc = "idle"
    /\ UNCHANGED <<columnVars, cacheVars, mergeVars, odbcVars>>
    /\ pos' = Reset(pos, boundary)
    /\ ret' = [op |-> "Reset", val |-> "ok"]
    /\ UNCHANGED <<buffer_manager, derived, boundary, cur_buffer_handle, states,
                   initialized, result_position, pc, callNo, trace>>

\* a call of ParseChunk() on the base scanner
CallParseChunk ==
    /\ pc = "idle"
    /\ UNCHANGED <<columnVars, cacheVars, mergeVars, odbcVars>>
    /\ ~derived
    /\ ret' = [op |-> "ParseChunk", val |-> ParseChunk]
    /\ UNCHANGED <<buffer_manager, derived, boundary, pos, cur_buffer_handle, states,
                   initialized, result_position, pc, callNo, trace>>

\* a call of GetResult() on the base scanner
CallGetResult ==
    /\ pc = "idle"
    /\ UNCHANGED <<columnVars, cacheVars, mergeVars, odbcVars>>
    /\ ~derived
    /\ ret' = [op |-> "GetResult", val |-> GetResult]
    /\ UNCHANGED <<buffer_manager, derived, boundary, pos, cur_buffer_handle, states,
                   initialized, result_position, pc, callNo, trace>>

\* a direct call of Process() on the base scanner
CallProcess ==
    /\ pc = "idle"
    /\ UNCHANGED <<columnVars, cacheVars, mergeVars, odbcVars>>
    /\ ~derived
    /\ ret' = [op |-> "Process", val |-> Process]
    /\ UNCHANGED <<buffer_manager, derived, boundary, pos, cur_buffer_handle, states,
                   initialized, result_position, pc, callNo, trace>>

\* a direct call of FinalizeChunkProcess() on the base scanner
CallFinalizeChunkProcess ==
    /\ pc = "idle"
    /\ UNCHANGED <<columnVars, cacheVars, mergeVars, odbcVars>>
    /\ ~derived
    /\ ret' = [op |-> "FinalizeChunkProcess", val |-> FinalizeChunkProcess]
    /\ UNCHANGED <<buffer_manager, derived, boundary, pos, cur_buffer_handle, states,
                   initialized, result_position, pc, callNo, trace>>

\* ParseChunkInternal() is entered
ParseChunkInternal_Enter ==
    /\ pc = "idle"
    /\ UNCHANGED <<columnVars, cacheVars, mergeVars, odbcVars>>
    /\ callNo < MaxCalls
    /\ pc' = "entry"
    /\ callNo' = callNo + 1
    /\ trace' = <<IF initialized THEN "initialized" ELSE "uninitialized">>
    /\ ret' = [op |-> "ParseChunkInternal", val |-> "running"]
    /\ UNCHANGED <<buffer_manager, derived, boundary, pos, cur_buffer_handle, states,
                   initialized, result_position>>

\* if (!initialized) { Initialize(); }
ParseChunkInternal_Initialize ==
    /\ pc = "entry"
    /\ UNCHANGED <<columnVars, cacheVars, mergeVars, odbcVars>>
    /\ IF ~initialized
       THEN /\ states' = Initialize(states, initialized).states
            /\ initialized' = Initialize(states, initialized).initialized
            /\ trace' = Append(trace, "Initialize")
       ELSE UNCHANGED <<states, initialized, trace>>
    /\ pc' = "process"
    /\ UNCHANGED <<buffer_manager, derived, boundary, pos, cur_buffer_handle,
                   result_position, callNo, ret>>

\* faulty variant of the Process step: the call goes on to
\* FinalizeChunkProcess although Process threw
ParseChunkInternal_Process_SwallowsThrow ==
    /\ pc = "process"
    /\ UNCHANGED <<columnVars, cacheVars, mergeVars, odbcVars>>
    /\ IF derived
       THEN /\ DerivedProcess
            /\ trace' = trace \o <<"Process", "ProcessReturned">>
            /\ ret' = ret
       ELSE /\ trace' = trace \o <<"Process", "ProcessThrew">>
            /\ ret' = [op |-> "ParseChunkInternal", val |-> Process]
            /\ UNCHANGED <<buffer_manager, pos, cur_buffer_handle, states, result_position>>
    /\ pc' = "finalize"
    /\ UNCHANGED <<derived, boundary, initialized, callNo>>

\* Process(); the base implementation throws, which ends the call
ParseChunkInternal_Process ==
    /\ pc = "process"
    /\ UNCHANGED <<columnVars, cacheVars, mergeVars, odbcVars>>
    /\ IF derived
       THEN /\ DerivedProcess
            /\ trace' = trace \o <<"Process", "ProcessReturned">>
            /\ pc' = "finalize"
            /\ ret' = ret
       ELSE /\ trace' = trace \o <<"Process", "ProcessThrew">>
            /\ pc' = "idle"
            /\ ret' = [op |-> "ParseChunkInternal", val |-> Process]
            /\ UNCHANGED <<buffer_manager, pos, cur_buffer_handle, states, result_position>>
    /\ UNCHANGED <<derived, boundary, initialized, callNo>>

\* FinalizeChunkProcess(); reached only when Process() returned
ParseChunkInternal_Finalize ==
    /\ pc = "finalize"
    /\ UNCHANGED <<columnVars, cacheVars, mergeVars, odbcVars>>
    /\ IF derived
       THEN /\ DerivedFinalizeChunkProcess
            /\ trace' = Append(trace, "FinalizeChunkProcess")
            /\ ret' = [op |-> "ParseChunkInternal", val |-> "ok"]
       ELSE /\ trace' = trace \o <<"FinalizeChunkProcess", "FinalizeChunkProcessThrew">>
            /\ ret' = [op |-> "ParseChunkInternal", val |-> FinalizeChunkProcess]
            /\ UNCHANGED <<buffer_manager, pos, cur_buffer_handle, states, result_position>>
    /\ pc' = "idle"
    /\ UNCHANGED <<derived, boundary, initialized, callNo>>

\* the caller clears the result accumulator before a new attempt
ResultClear ==
    /\ pc = "idle"
    /\ UNCHANGED <<columnVars, cacheVars, mergeVars, odbcVars>>
    /\ result_position > 0
    /\ result_position' = 0
    /\ ret' = [op |-> "ResultClear", val |-> "ok"]
    /\ UNCHANGED <<buffer_manager, derived, boundary, pos, cur_buffer_handle, states,
                   initialized, pc, callNo, trace>>

\* the buffer manager has read the whole source
SourceExhausted ==
    /\ pc = "idle"
    /\ UNCHANGED <<columnVars, cacheVars, mergeVars, odbcVars>>
    /\ ~buffer_manager.done
    /\ buffer_manager' = [buffer_manager EXCEPT !.done = TRUE]
    /\ UNCHANGED <<derived, boundary, pos, cur_buffer_handle, states, initialized,
                   result_position, pc, callNo, trace, ret>>

Next ==
    \/ CallFinished
    \/ CallReset
    \/ CallParseChunk
    \/ CallGetResult
    \/ CallProcess
    \/ CallFinalizeChunkProcess
    \/ ParseChunkInternal_Enter
    \/ ParseChunkInternal_Initialize
    \/ ParseChunkInternal_Process
    \/ ParseChunkInternal_Finalize
    \/ ResultClear
    \/ SourceExhausted
    \/ CallSize
    \/ CallEmpty

Spec == Init /\ [][Next]_vars

----------------------------------------------------------------------------
(* BaseScanner::ColumnTypesError.  A string is modelled as the sequence of  *)
(* its parts: fixed text, a column name, a comma; string() is <<>>.         *)

\* the longest names vector
MaxNames == 2

\* the column names of the model, in two spellings
NameUniverse == {"a", "A", "b", "B", "c"}

\* the case folding of case_insensitive_map_t's hash and equality
Lower(s) == CASE s = "A" -> "a" [] s = "B" -> "b" [] OTHER -> s

\* faulty variant of Find: compares the spelling
Find_CaseSensitive(map, name) == {k \in map : k = name}

\* case_insensitive_map_t::find(name): the keys equal to name (none or one)
Find(map, name) == {k \in map : Lower(k) = Lower(name)}

\* the for loop over names (part_002:95-101): every found name is erased
RECURSIVE EraseFound(_, _, _)
EraseFound(map, nms, i) ==
    IF i > Len(nms) THEN map
    ELSE IF Find(map, nms[i]) # {}
         THEN EraseFound(map \ Find(map, nms[i]), nms, i + 1)
         ELSE EraseFound(map, nms, i + 1)

\* the orders in which the remaining map may be iterated
Orders(S) == {s \in [1..Cardinality(S) -> S] : \A i, j \in 1..Cardinality(S) : s[i] = s[j] => i = j}

\* exception += "\"" + col.first + "\","  for every remaining column
RECURSIVE AppendColumns(_, _, _)
AppendColumns(msg, ord, i) ==
    IF i > Len(ord) THEN msg
    ELSE AppendColumns(msg \o <<[kind |-> "name", text |-> ord[i]],
                                [kind |-> "text", text |-> ","]>>, ord, i + 1)

\* string::pop_back
PopBack(s) == SubSeq(s, 1, Len(s) - 1)

\* BaseScanner::ColumnTypesError, for the iteration order ord of the map that
\* remains after the loop
ColumnTypesError(declared, nms, ord) ==
    LET remaining == EraseFound(declared, nms, 1)
    IN  IF remaining = {} THEN <<>>
        ELSE PopBack(AppendColumns(
                 <<[kind |-> "text", text |-> "COLUMN_TYPES error: Columns with names: "]>>,
                 ord, 1))
             \o <<[kind |-> "text", text |-> " do not exist in the CSV File"]>>

\* the maps a case_insensitive_map_t can be: no two keys equal up to case
DeclaredMaps == {S \in SUBSET NameUniverse : \A x, y \in S : Lower(x) = Lower(y) => x = y}

RECURSIVE SeqsUpTo(_, _)
SeqsUpTo(S, n) ==
    IF n = 0 THEN {<<>>}
    ELSE LET shorter == SeqsUpTo(S, n - 1)
         IN  shorter \cup {Append(s, x) : s \in {q \in shorter : Len(q) = n - 1}, x \in S}

InitColumn ==
    /\ sql_types_per_column \in DeclaredMaps
    /\ names \in SeqsUpTo(NameUniverse, MaxNames)
    /\ exception = [called |-> FALSE, msg |-> <<>>]
    /\ ScannerUnused /\ CacheUnused /\ MergeUnused /\ OdbcUnused

\* a call of ColumnTypesError(sql_types_per_column, names); the map is passed
\* by value
CallColumnTypesError ==
    /\ ~exception.called
    /\ \E ord \in Orders(EraseFound(sql_types_per_column, names, 1)) :
           exception' = [called |-> TRUE,
                         msg |-> ColumnTypesError(sql_types_per_column, names, ord)]
    /\ UNCHANGED <<sql_types_per_column, names, scannerVars, cacheVars, mergeVars, odbcVars>>

NextColumn == CallColumnTypesError

SpecColumn == InitColumn /\ [][NextColumn]_vars

----------------------------------------------------------------------------
(* Connect::SetConnection and the process-wide database instance cache      *)
(* (src/unnamed/part_000).  DBInstanceCache::GetOrCreateInstance is not     *)
(* part of the sources; it is modelled from the comment at part_000:228:    *)
(* connections to the same file point to the same database object.  The     *)
(* lifetime of database instances is not modelled: an instance, once        *)
(* created, exists for the rest of the behaviour.                           *)

\* connection handles
MaxDbc == 2
\* database instances that may be created
MaxInstances == 3

\* the database names of the model
Databases == {"", ":memory:", "a.db", "b.db"}

\* DBInstanceCache::GetOrCreateInstance(database, config, cache_instance)
GetOrCreateInstance(cache, database, cache_instance, next) ==
    IF cache_instance /\ cache[database] # 0
    THEN [db |-> cache[database], cache |-> cache, next |-> next]
    ELSE [db    |-> next,
          cache |-> IF cache_instance THEN [cache EXCEPT ![database] = next] ELSE cache,
          next  |-> next + 1]

\* faulty variant of CacheInstance: only the empty name is not cached
CacheInstance_NonEmpty(database) == database # ""

\* bool cache_instance = database != ":memory:" && !database.empty();
CacheInstance(database) == database # ":memory:" /\ database # ""

InitCache ==
    /\ instance_cache = [p \in Databases |-> 0]
    /\ env_db = 0
    /\ dbcs = [d \in 1..MaxDbc |-> [database |-> "",
                                    conn |-> [open |-> FALSE, database |-> "", db |-> 0]]]
    /\ request = [database |-> "", cache_instance |-> FALSE]
    /\ next_db = 1
    /\ ScannerUnused /\ ColumnUnused /\ MergeUnused /\ OdbcUnused

\* Connect::HandleDatabase(val) on connection handle d, whose current
\* catalog attribute is sql_attr_current_catalog
HandleDatabase(d, val, sql_attr_current_catalog) ==
    LET new_db_name == IF sql_attr_current_catalog # "" /\ val = ""
                       THEN sql_attr_current_catalog
                       ELSE val
    IN  /\ dbcs' = [dbcs EXCEPT ![d].database = new_db_name]
        /\ UNCHANGED <<instance_cache, env_db, request, next_db>>
        /\ UNCHANGED <<scannerVars, columnVars, mergeVars, odbcVars>>

\* Connect::SetConnection() on connection handle d
SetConnection(d) ==
    LET database       == dbcs[d].database
        cache_instance == CacheInstance(database)
        got            == GetOrCreateInstance(instance_cache, database, cache_instance, next_db)
    IN  /\ got.db <= MaxInstances
        /\ request' = [database |-> database, cache_instance |-> cache_instance]
        /\ instance_cache' = got.cache
        /\ next_db' = got.next
        /\ env_db' = got.db
        /\ dbcs' = IF ~dbcs[d].conn.open
                   THEN [dbcs EXCEPT ![d].conn = [open |-> TRUE, database |-> database,
                                                  db |-> got.db]]
                   ELSE dbcs
        /\ UNCHANGED <<scannerVars, columnVars, mergeVars, odbcVars>>

NextCache ==
    \/ \E d \in 1..MaxDbc, val \in Databases, c \in {"", "b.db"} : HandleDatabase(d, val, c)
    \/ \E d \in 1..MaxDbc : SetConnection(d)

SpecCache == InitCache /\ [][NextCache]_vars

----------------------------------------------------------------------------
(* MergeJoinInner (src/src/execution/merge_join/merge_join_inner.cpp).      *)
(* One call of Operation is a sequence of steps: the entry test, then one   *)
(* step per iteration of the while (true) loop and one per iteration of     *)
(* Equality's inner back-stepping loop.  MergeInfo positions and            *)
(* sel_vector entries are 0-based as in the code; TLA+ sequences are        *)
(* 1-based, hence the "+ 1" in every access.                                *)

\* tuples per side
MaxCount == 3
\* the values are 1..MaxVal
MaxVal == 2
\* capacity of the result vectors, scaled down
STANDARD_VECTOR_SIZE == 2

Values == 1..MaxVal

\* the ascending value sequences of at most MaxCount tuples
Ascending ==
    {s \in UNION {[1..n -> Values] : n \in 0..MaxCount} :
        \A i \in 1..Len(s) - 1 : s[i] <= s[i + 1]}

\* selection vectors over n tuples: the identity and the reversal
Sels(n) == {[i \in 1..n |-> i - 1], [i \in 1..n |-> n - i]}

\* a side whose sel_vector orders its data as the ascending sequence s
MergeInfo(s, sel) ==
    [data       |-> [k \in 1..Len(s) |-> s[CHOOSE i \in 1..Len(s) : sel[i] = k - 1]],
     sel_vector |-> sel,
     pos        |-> 0,
     count      |-> Len(s)]

MergeInfos == UNION {{MergeInfo(s, sel) : sel \in Sels(Len(s))} : s \in Ascending}

\* position i lies inside the side's count tuples
InRange(m, i) == i >= 0 /\ i < m.count

\* m.sel_vector[i]: defined inside the range, any index outside it
SelRead(m, i) == IF InRange(m, i) THEN {m.sel_vector[i + 1]} ELSE 0..MaxCount

\* data[m.sel_vector[i]]: defined inside the range, any value outside it
Deref(m, i) == IF InRange(m, i) THEN {m.data[m.sel_vector[i + 1] + 1]} ELSE Values

\* the emitted pairs are capped, so that a faulty variant stays finite
EmitCap == MaxCount * MaxCount + STANDARD_VECTOR_SIZE

\* the comparison of the operation: operators::LessThan / LessThanEquals
Compare(o, lval, rval) == IF o = "LessThan" THEN lval < rval ELSE lval <= rval

InitMerge ==
    /\ op \in {"Equality", "LessThan", "LessThanEquals"}
    /\ l \in MergeInfos
    /\ r \in MergeInfos
    /\ result_count = 0
    /\ result = [i \in 1..STANDARD_VECTOR_SIZE |-> <<-1, -1>>]
    /\ mpc = "idle"
    /\ mret = -1
    /\ emitted = <<>>
    /\ unsafe = FALSE
    /\ ScannerUnused /\ ColumnUnused /\ CacheUnused /\ OdbcUnused

\* faulty variant of CallOperation: no entry test
CallOperation_NoEntryTest ==
    /\ mpc = "idle"
    /\ result_count' = 0
    /\ mpc' = "loop" /\ mret' = mret
    /\ UNCHANGED <<op, l, r, result, emitted, unsafe>>
    /\ UNCHANGED <<scannerVars, columnVars, cacheVars, odbcVars>>

\* Operation(l, r) is called: the entry test and size_t result_count = 0
CallOperation ==
    /\ mpc = "idle"
    /\ result_count' = 0
    /\ IF (op = "Equality" /\ l.pos >= l.count) \/ (op # "Equality" /\ r.pos >= r.count)
       THEN mpc' = "idle" /\ mret' = 0
       ELSE mpc' = "loop" /\ mret' = mret
    /\ UNCHANGED <<op, l, r, result, emitted, unsafe>>
    /\ UNCHANGED <<scannerVars, columnVars, cacheVars, odbcVars>>

\* return result_count
Return(count) == mpc' = "idle" /\ mret' = count

\* l.result[result_count] = li; r.result[result_count] = ri; result_count++
Emit(li, ri, u) ==
    /\ Len(emitted) < EmitCap
    /\ result' = IF result_count < STANDARD_VECTOR_SIZE
                 THEN [result EXCEPT ![result_count + 1] = <<li, ri>>]
                 ELSE result
    /\ unsafe' = (u \/ result_count >= STANDARD_VECTOR_SIZE)
    /\ emitted' = Append(emitted, <<li, ri>>)
    /\ result_count' = result_count + 1

\* Equality, first branch: l.pos++ and the test for the exhausted left side
MoveLeft(u) ==
    /\ l' = [l EXCEPT !.pos = l.pos + 1]
    /\ IF l.pos + 1 >= l.count THEN Return(result_count)
       ELSE mpc' = "back" /\ mret' = mret
    /\ unsafe' = u
    /\ UNCHANGED <<r, result, result_count, emitted>>

\* faulty variant of MoveRight: the right cursor stays
MoveRight_Stays(u) ==
    /\ unsafe' = u
    /\ UNCHANGED <<l, r, result, result_count, emitted, mpc, mret>>

\* Equality, second branch: r.pos++
MoveRight(u) ==
    /\ r' = [r EXCEPT !.pos = r.pos + 1]
    /\ unsafe' = u
    /\ UNCHANGED <<l, result, result_count, emitted, mpc, mret>>

\* faulty variant of Match: breaks one result before the output is full
Match_BreaksEarly(li, ri, u) ==
    /\ Emit(li, ri, u)
    /\ r' = [r EXCEPT !.pos = r.pos + 1]
    /\ IF result_count + 1 >= STANDARD_VECTOR_SIZE - 1 THEN Return(result_count + 1)
       ELSE mpc' = "loop" /\ mret' = mret
    /\ UNCHANGED l

\* Equality, third branch: output the tuple, r.pos++, break when full
Match(li, ri, u) ==
    /\ Emit(li, ri, u)
    /\ r' = [r EXCEPT !.pos = r.pos + 1]
    /\ IF result_count + 1 = STANDARD_VECTOR_SIZE THEN Return(result_count + 1)
       ELSE mpc' = "loop" /\ mret' = mret
    /\ UNCHANGED l

\* one iteration of Equality's while (true) loop
EqualityLoop ==
    /\ mpc = "loop" /\ op = "Equality"
    /\ IF r.pos = r.count
       THEN MoveLeft(unsafe)
       ELSE \E lval \in Deref(l, l.pos), rval \in Deref(r, r.pos),
               li \in SelRead(l, l.pos), ri \in SelRead(r, r.pos) :
                LET u == unsafe \/ ~InRange(l, l.pos) \/ ~InRange(r, r.pos)
                IN  IF lval < rval THEN MoveLeft(u)
                    ELSE IF lval > rval THEN MoveRight(u)
                    ELSE Match(li, ri, u)
    /\ UNCHANGED op
    /\ UNCHANGED <<scannerVars, columnVars, cacheVars, odbcVars>>

\* faulty variant of EqualityBack: the right cursor is never stepped back
EqualityBack_Never ==
    /\ mpc = "back" /\ op = "Equality"
    /\ mpc' = "loop"
    /\ UNCHANGED <<op, l, r, result, result_count, emitted, mret, unsafe>>
    /\ UNCHANGED <<scannerVars, columnVars, cacheVars, odbcVars>>

\* one test of Equality's inner loop:
\* while (r.pos > 0 && Equals(ldata[l.sel_vector[l.pos]], rdata[r.sel_vector[r.pos - 1]]))
EqualityBack ==
    /\ mpc = "back" /\ op = "Equality"
    /\ IF r.pos > 0
       THEN \E lval \in Deref(l, l.pos), rval \in Deref(r, r.pos - 1) :
                /\ IF lval = rval
                   THEN r' = [r EXCEPT !.pos = r.pos - 1] /\ mpc' = "back"
                   ELSE r' = r /\ mpc' = "loop"
                /\ unsafe' = (unsafe \/ ~InRange(l, l.pos) \/ ~InRange(r, r.pos - 1))
       ELSE r' = r /\ mpc' = "loop" /\ unsafe' = unsafe
    /\ UNCHANGED <<op, l, result, result_count, emitted, mret>>
    /\ UNCHANGED <<scannerVars, columnVars, cacheVars, odbcVars>>

\* LessThan / LessThanEquals, first branch: output the tuple, l.pos++, break when full
EmitLeft(li, ri, u) ==
    /\ Emit(li, ri, u)
    /\ l' = [l EXCEPT !.pos = l.pos + 1]
    /\ IF result_count + 1 = STANDARD_VECTOR_SIZE THEN Return(result_count + 1)
       ELSE mpc' = "loop" /\ mret' = mret
    /\ UNCHANGED r

\* faulty variant of NextRight: the left cursor is not reset
NextRight_KeepsLeft(u) ==
    /\ l' = l
    /\ r' = [r EXCEPT !.pos = r.pos + 1]
    /\ IF r.pos + 1 = r.count THEN Return(result_count)
       ELSE mpc' = "loop" /\ mret' = mret
    /\ unsafe' = u
    /\ UNCHANGED <<result, result_count, emitted>>

\* LessThan / LessThanEquals, second branch: l.pos = 0, r.pos++, break at the end
NextRight(u) ==
    /\ l' = [l EXCEPT !.pos = 0]
    /\ r' = [r EXCEPT !.pos = r.pos + 1]
    /\ IF r.pos + 1 = r.count THEN Return(result_count)
       ELSE mpc' = "loop" /\ mret' = mret
    /\ unsafe' = u
    /\ UNCHANGED <<result, result_count, emitted>>

\* one iteration of the while (true) loop of LessThan and LessThanEquals
LessThanLoop ==
    /\ mpc = "loop" /\ op \in {"LessThan", "LessThanEquals"}
    /\ IF l.pos < l.count
       THEN \E lval \in Deref(l, l.pos), rval \in Deref(r, r.pos),
               li \in SelRead(l, l.pos), ri \in SelRead(r, r.pos) :
                LET u == unsafe \/ ~InRange(r, r.pos)
                IN  IF Compare(op, lval, rval) THEN EmitLeft(li, ri, u)
                    ELSE NextRight(u)
       ELSE NextRight(unsafe)
    /\ UNCHANGED op
    /\ UNCHANGED <<scannerVars, columnVars, cacheVars, odbcVars>>

NextMerge ==
    \/ CallOperation
    \/ EqualityLoop
    \/ EqualityBack
    \/ LessThanLoop

SpecMerge == InitMerge /\ [][NextMerge]_vars

\* every started call runs on, and the caller goes on calling
SpecMergeFair == SpecMerge /\ WF_vars(NextMerge)

----------------------------------------------------------------------------
(* SQLAllocHandle and duckdb::FreeHandle (src/unnamed/part_000:20-102).     *)
(* A handle is an index into the pool of its type; 0 is the null handle.    *)
(* A freed index may be allocated again, as a freed address may.  The       *)
(* handle classes are not part of the sources: the constructors,            *)
(* EraseStmtRef, ResetStmtDescriptors and the attachment of an explicit     *)
(* descriptor to a statement are modelled after their names and uses.  The  *)
(* caller passes a handle of the type it names, and never a freed one.      *)

\* connection handles
MaxConn == 1
\* statement handles
MaxStmt == 2
\* descriptor handles
MaxDesc == 1

HandleTypes == {"SQL_HANDLE_ENV", "SQL_HANDLE_DBC", "SQL_HANDLE_STMT", "SQL_HANDLE_DESC"}

\* a handle type outside the four of the switch
OtherType == "SQL_HANDLE_OTHER"

NoDbc  == [live |-> FALSE, vec_stmt_ref |-> {}]
NoStmt == [live |-> FALSE, dbc |-> 0, desc |-> 0]
NoDesc == [live |-> FALSE, dbc |-> 0]

InitHandle ==
    /\ h_env = FALSE
    /\ h_dbc = [c \in 1..MaxConn |-> NoDbc]
    /\ h_stmt = [s \in 1..MaxStmt |-> NoStmt]
    /\ h_desc = [d \in 1..MaxDesc |-> NoDesc]
    /\ h_ret = [op |-> "none", type |-> "none", null |-> TRUE, code |-> "none"]
    /\ AttrUnused
    /\ ScannerUnused /\ ColumnUnused /\ CacheUnused /\ MergeUnused

\* the pointer hdl->dbc of a statement or descriptor points to a connection
\* object: the owning connection, or one allocated later at its address
DbcAlive(c) == c \in DOMAIN h_dbc /\ h_dbc[c].live

\* OdbcHandleDbc::EraseStmtRef(stmt) on connection c
EraseStmtRef(dbc, c, stmt) ==
    [dbc EXCEPT ![c].vec_stmt_ref = dbc[c].vec_stmt_ref \ {stmt}]

\* OdbcHandleDbc::ResetStmtDescriptors(old_desc) on connection c: every
\* statement of the connection that uses old_desc returns to its own descriptor
ResetStmtDescriptors(stmts, dbc, c, old_desc) ==
    [s \in DOMAIN stmts |->
        IF s \in dbc[c].vec_stmt_ref /\ stmts[s].desc = old_desc
        THEN [stmts[s] EXCEPT !.desc = 0]
        ELSE stmts[s]]

\* SQLAllocHandle(handle_type, input_handle, output_handle_ptr)
SQLAllocHandle(handle_type, input_handle) ==
    /\ CASE handle_type = "SQL_HANDLE_DBC" ->
              /\ input_handle = 1 /\ h_env
              /\ \E c \in 1..MaxConn :
                    /\ ~h_dbc[c].live
                    /\ h_dbc' = [h_dbc EXCEPT ![c] = [live |-> TRUE, vec_stmt_ref |-> {}]]
              /\ h_ret' = [op |-> "SQLAllocHandle", type |-> handle_type,
                           null |-> input_handle = 0, code |-> "SQL_SUCCESS"]
              /\ UNCHANGED <<h_env, h_stmt, h_desc>>
         [] handle_type = "SQL_HANDLE_ENV" ->
              /\ input_handle = 0 /\ ~h_env
              /\ h_env' = TRUE
              /\ h_ret' = [op |-> "SQLAllocHandle", type |-> handle_type,
                           null |-> input_handle = 0, code |-> "SQL_SUCCESS"]
              /\ UNCHANGED <<h_dbc, h_stmt, h_desc>>
         [] handle_type = "SQL_HANDLE_STMT" ->
              /\ DbcAlive(input_handle)
              /\ \E s \in 1..MaxStmt :
                    /\ ~h_stmt[s].live
                    /\ h_stmt' = [h_stmt EXCEPT ![s] = [live |-> TRUE, dbc |-> input_handle,
                                                        desc |-> 0]]
                    /\ h_dbc' = [h_dbc EXCEPT ![input_handle].vec_stmt_ref = @ \cup {s}]
              /\ h_ret' = [op |-> "SQLAllocHandle", type |-> handle_type,
                           null |-> input_handle = 0, code |-> "SQL_SUCCESS"]
              /\ UNCHANGED <<h_env, h_desc>>
         [] handle_type = "SQL_HANDLE_DESC" ->
              /\ DbcAlive(input_handle)
              /\ \E d \in 1..MaxDesc :
                    /\ ~h_desc[d].live
                    /\ h_desc' = [h_desc EXCEPT ![d] = [live |-> TRUE, dbc |-> input_handle]]
              /\ h_ret' = [op |-> "SQLAllocHandle", type |-> handle_type,
                           null |-> input_handle = 0, code |-> "SQL_SUCCESS"]
              /\ UNCHANGED <<h_env, h_dbc, h_stmt>>
         [] OTHER ->
              /\ h_ret' = [op |-> "SQLAllocHandle", type |-> handle_type,
                           null |-> input_handle = 0, code |-> "SQL_INVALID_HANDLE"]
              /\ UNCHANGED <<h_env, h_dbc, h_stmt, h_desc>>
    /\ UNCHANGED <<odbc_version, attr_ret>>
    /\ UNCHANGED <<scannerVars, columnVars, cacheVars, mergeVars>>

\* SQLSetStmtAttr(stmt, SQL_ATTR_APP_ROW_DESC / SQL_ATTR_APP_PARAM_DESC, desc):
\* statement s uses the explicit descriptor d of its connection
SetStmtDescriptor(s, d) ==
    /\ h_stmt[s].live /\ h_desc[d].live
    /\ DbcAlive(h_stmt[s].dbc) /\ s \in h_dbc[h_stmt[s].dbc].vec_stmt_ref
    /\ h_desc[d].dbc = h_stmt[s].dbc
    /\ h_stmt' = [h_stmt EXCEPT ![s].desc = d]
    /\ h_ret' = [op |-> "SQLSetStmtAttr", type |-> "SQL_HANDLE_STMT", null |-> FALSE,
                 code |-> "SQL_SUCCESS"]
    /\ UNCHANGED <<h_env, h_dbc, h_desc, odbc_version, attr_ret>>
    /\ UNCHANGED <<scannerVars, columnVars, cacheVars, mergeVars>>

\* the handles a caller may pass for a handle type: null, or an allocated
\* handle of that type (any allocated handle for a type outside the switch)
Handles(handle_type) ==
    {0} \cup
    CASE handle_type = "SQL_HANDLE_ENV"  -> IF h_env THEN {1} ELSE {}
      [] handle_type = "SQL_HANDLE_DBC"  -> {c \in 1..MaxConn : h_dbc[c].live}
      [] handle_type = "SQL_HANDLE_STMT" -> {s \in 1..MaxStmt : h_stmt[s].live}
      [] handle_type = "SQL_HANDLE_DESC" -> {d \in 1..MaxDesc : h_desc[d].live}
      [] OTHER                           -> {s \in 1..MaxStmt : h_stmt[s].live}

\* faulty variant of FreeStmt: the statement is deleted, its reference stays
FreeStmt_KeepsRef(handle) ==
    /\ h_stmt' = [h_stmt EXCEPT ![handle] = NoStmt]
    /\ h_dbc' = h_dbc
    /\ UNCHANGED <<h_env, h_desc>>

\* case SQL_HANDLE_STMT: hdl->dbc->EraseStmtRef(hdl); delete hdl;
\* with hdl->dbc dangling the call writes to no connection object
FreeStmt(handle) ==
    /\ h_stmt' = [h_stmt EXCEPT ![handle] = NoStmt]
    /\ h_dbc' = IF DbcAlive(h_stmt[handle].dbc)
                THEN EraseStmtRef(h_dbc, h_stmt[handle].dbc, handle)
                ELSE h_dbc
    /\ UNCHANGED <<h_env, h_desc>>

\* case SQL_HANDLE_DESC: hdl->dbc->ResetStmtDescriptors(hdl); delete hdl;
FreeDesc(handle) ==
    /\ h_desc' = [h_desc EXCEPT ![handle] = NoDesc]
    /\ h_stmt' = IF DbcAlive(h_desc[handle].dbc)
                 THEN ResetStmtDescriptors(h_stmt, h_dbc, h_desc[handle].dbc, handle)
                 ELSE h_stmt
    /\ UNCHANGED <<h_env, h_dbc>>

\* duckdb::FreeHandle(handle_type, handle), called by SQLFreeHandle
FreeHandle(handle_type, handle) ==
    /\ handle \in Handles(handle_type)
    /\ IF handle = 0
       THEN /\ h_ret' = [op |-> "SQLFreeHandle", type |-> handle_type, null |-> handle = 0,
                         code |-> "SQL_INVALID_HANDLE"]
            /\ UNCHANGED <<h_env, h_dbc, h_stmt, h_desc>>
       ELSE CASE handle_type = "SQL_HANDLE_DBC" ->
                   /\ h_dbc' = [h_dbc EXCEPT ![handle] = NoDbc]
                   /\ UNCHANGED <<h_env, h_stmt, h_desc>>
                   /\ h_ret' = [op |-> "SQLFreeHandle", type |-> handle_type,
                                null |-> handle = 0, code |-> "SQL_SUCCESS"]
              [] handle_type = "SQL_HANDLE_DESC" ->
                   /\ FreeDesc(handle)
                   /\ h_ret' = [op |-> "SQLFreeHandle", type |-> handle_type,
                                null |-> handle = 0, code |-> "SQL_SUCCESS"]
              [] handle_type = "SQL_HANDLE_ENV" ->
                   /\ h_env' = FALSE
                   /\ UNCHANGED <<h_dbc, h_stmt, h_desc>>
                   /\ h_ret' = [op |-> "SQLFreeHandle", type |-> handle_type,
                                null |-> handle = 0, code |-> "SQL_SUCCESS"]
              [] handle_type = "SQL_HANDLE_STMT" ->
                   /\ FreeStmt(handle)
                   /\ h_ret' = [op |-> "SQLFreeHandle", type |-> handle_type,
                                null |-> handle = 0, code |-> "SQL_SUCCESS"]
              [] OTHER ->
                   /\ h_ret' = [op |-> "SQLFreeHandle", type |-> handle_type,
                                null |-> handle = 0, code |-> "SQL_INVALID_HANDLE"]
                   /\ UNCHANGED <<h_env, h_dbc, h_stmt, h_desc>>
    /\ UNCHANGED <<odbc_version, attr_ret>>
    /\ UNCHANGED <<scannerVars, columnVars, cacheVars, mergeVars>>

NextHandle ==
    \/ \E handle_type \in HandleTypes \cup {OtherType}, input_handle \in 0..MaxConn :
           SQLAllocHandle(handle_type, input_handle)
    \/ \E s \in 1..MaxStmt, d \in 1..MaxDesc : SetStmtDescriptor(s, d)
    \/ \E handle_type \in HandleTypes \cup {OtherType},
          handle \in 0..(MaxConn + MaxStmt + MaxDesc) : FreeHandle(handle_type, handle)

SpecHandle == InitHandle /\ [][NextHandle]_vars

----------------------------------------------------------------------------
(* ExtractMajorVersion and SQLSetEnvAttr(SQL_ATTR_ODBC_VERSION)             *)
(* (src/unnamed/part_000:104-139).  The application passes an ODBC version  *)
(* of a major and a minor number in one of the three notations: major,      *)
(* major*10 + minor, major*100 + minor*10.  ConvertEnvironment and          *)
(* SetDiagnosticRecord are not part of the sources.                         *)

\* the major versions are 1..MaxMajor
MaxMajor == 3

\* the minor version is one decimal digit
Minors == 0..9

\* the notations of a version
Notations == {"major", "major*10+minor", "major*100+minor*10"}

\* the value passed for a version in a notation
VersionValue(major, minor, notation) ==
    CASE notation = "major"              -> major
      [] notation = "major*10+minor"     -> major * 10 + minor
      [] notation = "major*100+minor*10" -> major * 100 + minor * 10

SQL_OV_ODBC2 == 2
SQL_OV_ODBC3 == 3

\* static SQLUINTEGER ExtractMajorVersion(SQLPOINTER value_ptr)
ExtractMajorVersion(full_version) ==
    IF full_version > 100 THEN full_version \div 100
    ELSE IF full_version > 10 THEN full_version \div 10
    ELSE full_version

\* ConvertEnvironment(environment_handle, env): a null handle is refused
ConvertEnvironment(environment_handle) ==
    IF environment_handle = 0 THEN "SQL_INVALID_HANDLE" ELSE "SQL_SUCCESS"

\* duckdb::SetDiagnosticRecord(handle, ret, ...): records the diagnostic, returns ret
SetDiagnosticRecord(return_code) == return_code

InitEnvAttr ==
    /\ odbc_version = 0
    /\ attr_ret = [env |-> 0, value |-> 0, major |-> 0, extracted |-> 0, code |-> "none"]
    /\ HandleUnused
    /\ ScannerUnused /\ ColumnUnused /\ CacheUnused /\ MergeUnused

\* SQLSetEnvAttr(environment_handle, SQL_ATTR_ODBC_VERSION, value_ptr, string_length),
\* value_ptr being the version major.minor in a notation
SQLSetEnvAttr(environment_handle, major, minor, notation) ==
    LET value_ptr     == VersionValue(major, minor, notation)
        converted     == ConvertEnvironment(environment_handle)
        major_version == ExtractMajorVersion(value_ptr)
    IN  /\ IF converted # "SQL_SUCCESS"
           THEN /\ attr_ret' = [env |-> environment_handle, value |-> value_ptr,
                                major |-> major, extracted |-> 0, code |-> converted]
                /\ UNCHANGED odbc_version
           ELSE IF major_version \in {SQL_OV_ODBC3, SQL_OV_ODBC2}
           THEN /\ odbc_version' = major_version
                /\ attr_ret' = [env |-> environment_handle, value |-> value_ptr,
                                major |-> major, extracted |-> major_version,
                                code |-> "SQL_SUCCESS"]
           ELSE /\ attr_ret' = [env |-> environment_handle, value |-> value_ptr,
                                major |-> major, extracted |-> major_version,
                                code |-> SetDiagnosticRecord("SQL_SUCCESS_WITH_INFO")]
                /\ UNCHANGED odbc_version
        /\ UNCHANGED <<h_env, h_dbc, h_stmt, h_desc, h_ret>>
        /\ UNCHANGED <<scannerVars, columnVars, cacheVars, mergeVars>>

NextEnvAttr ==
    \E environment_handle \in {0, 1}, major \in 1..MaxMajor, minor \in Minors,
       notation \in Notations :
        SQLSetEnvAttr(environment_handle, major, minor, notation)

SpecEnvAttr == InitEnvAttr /\ [][NextEnvAttr]_vars

----------------------------------------------------------------------------
(* Properties *)

Range(s) == {s[i] : i \in 1..Len(s)}

IsPrefix(s, t) == Len(s) <= Len(t) /\ SubSeq(t, 1, Len(s)) = s

\* the Position and buffer handle the constructor establishes on the boundary
ConstructedOn(bm, b) == BaseScanner(bm, b)

\* the virtual calls of one ParseChunkInternal call, given what it found at entry
InitPart(entry) == IF entry = "uninitialized" THEN <<"Initialize">> ELSE <<>>
Completed(entry) == InitPart(entry) \o <<"Process", "ProcessReturned", "FinalizeChunkProcess">>
Aborted(entry) == InitPart(entry) \o <<"Process", "ProcessThrew">>

\* C1: every ParseChunkInternal call runs Initialize first and only when the
\* scanner is not initialized, then Process once, then FinalizeChunkProcess
\* once; FinalizeChunkProcess starts only after Process of the same call has
\* returned and does not run when Process threw.
C1_FixedOrder ==
    trace # <<>> =>
        LET entry == Head(trace)
            calls == Tail(trace)
        IN  /\ pc = "entry" => calls = <<>>
            /\ pc = "process" => calls = InitPart(entry)
            /\ pc = "finalize" => calls = InitPart(entry) \o <<"Process", "ProcessReturned">>
            /\ pc = "idle" => calls \in {Completed(entry), Aborted(entry)}
            /\ (pc = "idle" /\ ret = [op |-> "ParseChunkInternal", val |-> "ok"])
                   => calls = Completed(entry)
            /\ (pc = "idle" /\ ret = [op |-> "ParseChunkInternal", val |-> "InternalException"])
                   => calls = Aborted(entry)

\* C1 witness: a second ParseChunkInternal call has run to completion
C1_Witness ==
    /\ pc = "idle"
    /\ callNo = 2
    /\ ret = [op |-> "ParseChunkInternal", val |-> "ok"]
    /\ Tail(trace) = Completed(Head(trace))

\* C2 (as claimed): Initialize marks the scanner initialized, and the automaton
\* is reset by Initialize only during the first ParseChunkInternal call.
C2_InitializeOnlyInFirstCall ==
    /\ (pc = "process" /\ "Initialize" \in Range(trace)) => initialized
    /\ callNo > 1 => "Initialize" \notin Range(trace)

\* C3 (as claimed): with a single file, Finished() is true exactly when the
\* done flag is set, or the buffer handle is absent, or the source is
\* exhausted and the position is in the last buffer of the file at the last
\* valid byte of that buffer.
C3_FinishedIff ==
    FileCount(buffer_manager) = 1 =>
        ((Finished(buffer_manager, pos, cur_buffer_handle) = "true") <=>
            \/ pos.done
            \/ ~cur_buffer_handle.present
            \/ /\ Done(buffer_manager)
               /\ pos.buffer_id = buffer_manager.buffer_count - 1
               /\ pos.pos + 1 = ActualSize(buffer_manager, pos.buffer_id))

\* C4: after Reset() the Position equals the boundary's start in file index,
\* buffer index and offset, which is the Position of the constructor.
C4_ResetToBoundaryStart ==
    ret.op = "Reset" =>
        /\ pos.file_id = boundary.file_idx
        /\ pos.buffer_id = boundary.buffer_idx
        /\ pos.pos = boundary.buffer_pos
        /\ [pos EXCEPT !.done = FALSE] = ConstructedOn(buffer_manager, boundary).pos

\* C4 witness: Reset() after a scan that had crossed into a later buffer
C4_Witness ==
    /\ ret.op = "Reset"
    /\ callNo >= 1
    /\ cur_buffer_handle.present
    /\ cur_buffer_handle.buffer_idx # boundary.buffer_idx

\* C5 (as claimed): after Reset() a chunk parse starts from the state of the
\* first chunk parse: position at the boundary start, done flag clear, the
\* boundary's buffer handle, and the automaton re-initialized to EMPTY_LINE
\* when Process starts.
C5_ResetRestoresFirstParseState ==
    /\ ret.op = "Reset" =>
           /\ pos = ConstructedOn(buffer_manager, boundary).pos
           /\ cur_buffer_handle = ConstructedOn(buffer_manager, boundary).cur_buffer_handle
    /\ pc = "process" => states = "EMPTY_LINE"

\* C6: Reset() leaves the result accumulator and the boundary (and every
\* other field that is not the Position) as they were.
C6_ResetFrame ==
    [][CallReset => /\ result_position' = result_position
                    /\ boundary' = boundary
                    /\ cur_buffer_handle' = cur_buffer_handle
                    /\ states' = states
                    /\ initialized' = initialized]_vars

\* C6 witness: Reset() with a non-empty result accumulator
C6_Witness ==
    /\ ret.op = "Reset"
    /\ result_position > 0
    /\ ~Empty(result_position)

\* C7: with more than one file, the scanner not done and its buffer handle
\* present, Finished() raises the internal error and leaves the Position as
\* it was.
C7_MultiFileFinishedThrows ==
    [][(/\ CallFinished
        /\ FileCount(buffer_manager) > 1
        /\ ~pos.done
        /\ cur_buffer_handle.present)
       => (ret'.val = "InternalException" /\ pos' = pos)]_vars

\* C7 witness: Finished() has raised on a scanner over two files after a scan
C7_Witness ==
    /\ ret = [op |-> "Finished", val |-> "InternalException"]
    /\ FileCount(buffer_manager) > 1
    /\ ~pos.done
    /\ cur_buffer_handle.present
    /\ callNo >= 1

\* C8: on the base scanner ParseChunk, GetResult, Process and
\* FinalizeChunkProcess raise the internal error; ParseChunkInternal fails in
\* Process, never reaches FinalizeChunkProcess, and the Position and the
\* result accumulator stay what the constructor made them.
C8_BaseRaises ==
    ~derived =>
        /\ ret.op \in {"ParseChunk", "GetResult", "Process", "FinalizeChunkProcess"}
               => ret.val = "InternalException"
        /\ (ret.op = "ParseChunkInternal" /\ pc = "idle")
               => (ret.val = "InternalException" /\ Tail(trace) = Aborted(Head(trace)))
        /\ pc # "finalize"
        /\ "FinalizeChunkProcess" \notin Range(trace)
        /\ pos = ConstructedOn(buffer_manager, boundary).pos
        /\ result_position = 0

\* C8 witness: ParseChunkInternal on the base scanner has failed in Process
C8_Witness ==
    /\ ~derived
    /\ pc = "idle"
    /\ ret = [op |-> "ParseChunkInternal", val |-> "InternalException"]
    /\ trace = <<"uninitialized", "Initialize", "Process", "ProcessThrew">>

\* C9 (as claimed): the scanner's boundary satisfies
\* start_offset <= end_offset <= actual size of the loaded buffer.
C9_BoundaryClamped ==
    /\ boundary.buffer_pos <= boundary.end_pos
    /\ boundary.end_pos <= ActualSize(buffer_manager, boundary.buffer_idx)

\* C10 (as claimed): while the Position is in the boundary's file and buffer
\* its offset lies in [start_offset, end_offset).
C10_HalfOpenContainment ==
    (pos.file_id = boundary.file_idx /\ pos.buffer_id = boundary.buffer_idx)
        => (boundary.buffer_pos <= pos.pos /\ pos.pos < boundary.end_pos)

\* C10 (amended): for a boundary with start_offset <= end_offset, while the
\* Position is in the boundary's file and buffer its offset lies in the closed
\* range [start_offset, end_offset]; InBoundary is true exactly when the
\* indices match and the offset lies in [start_offset, end_offset).
C10_ClosedContainment ==
    /\ (pos.file_id = boundary.file_idx /\ pos.buffer_id = boundary.buffer_idx)
           => (boundary.buffer_pos <= pos.pos /\ pos.pos <= boundary.end_pos)
    /\ InBoundary(pos, boundary) <=>
           /\ pos.file_id = boundary.file_idx
           /\ pos.buffer_id = boundary.buffer_idx
           /\ boundary.buffer_pos <= pos.pos
           /\ pos.pos < boundary.end_pos

\* C10 witness: a scan has moved the Position of a non-empty boundary to the
\* boundary's end, where InBoundary no longer holds
C10_Witness ==
    /\ callNo >= 1
    /\ pc = "idle"
    /\ boundary.buffer_pos < boundary.end_pos
    /\ pos.file_id = boundary.file_idx
    /\ pos.buffer_id = boundary.buffer_idx
    /\ pos.pos = boundary.end_pos
    /\ ~InBoundary(pos, boundary)

\* C11: Size() returns result_position, Empty() returns true exactly when
\* result_position is 0, so Empty() holds exactly when Size() is 0; neither
\* call changes result_position.
C11_SizeEmpty ==
    [][/\ CallSize => /\ ret'.val = ToString(result_position)
                      /\ result_position' = result_position
       /\ CallEmpty => /\ (ret'.val = "true") <=> (result_position = 0)
                       /\ (ret'.val = "true") <=> (Size(result_position) = 0)
                       /\ result_position' = result_position]_vars

\* C11 witness: Empty() has answered false on a result that holds entries
C11_Witness ==
    /\ ret = [op |-> "Empty", val |-> "false"]
    /\ result_position > 0
    /\ Size(result_position) = result_position

\* the column names a message lists, in the order it lists them
ListedNames(msg) == LET idx == {i \in 1..Len(msg) : msg[i].kind = "name"}
                    IN  [n \in idx |-> msg[n].text]

\* C12: ColumnTypesError returns the empty string exactly when every declared
\* name matches some entry of names up to case; otherwise the message lists
\* every declared name without a match exactly once and no name with a match.
C12_ColumnTypesError ==
    exception.called =>
        LET present(d) == \E i \in 1..Len(names) : Lower(names[i]) = Lower(d)
            absent     == {d \in sql_types_per_column : ~present(d)}
            listed     == ListedNames(exception.msg)
        IN  /\ (exception.msg = <<>>) <=> (\A d \in sql_types_per_column : present(d))
            /\ \A d \in absent : Cardinality({i \in DOMAIN listed : listed[i] = d}) = 1
            /\ \A i \in DOMAIN listed : listed[i] \in absent

\* C12 witness: a message that lists one absent name while another declared
\* name was found under another spelling, by a names vector with a duplicate
C12_Witness ==
    /\ exception.called
    /\ Cardinality(DOMAIN ListedNames(exception.msg)) = 1
    /\ Len(names) = 2 /\ names[1] = names[2]
    /\ \E d \in sql_types_per_column : names[1] # d /\ Lower(names[1]) = Lower(d)

\* C13: the done flag is terminal: no step clears it, Reset() included, and
\* while it is set Finished() is true whatever the buffer source holds, more
\* than one file included.
C13_DoneTerminal ==
    /\ [](pos.done => Finished(buffer_manager, pos, cur_buffer_handle) = "true")
    /\ [][pos.done => pos'.done]_vars
    /\ [][(CallFinished /\ pos.done) => ret'.val = "true"]_vars

\* C13 witness: after a scan set done on a scanner over two files whose buffer
\* handle is present, Reset() has run and Finished() is true
C13_Witness ==
    /\ ret.op = "Reset"
    /\ pos.done
    /\ cur_buffer_handle.present
    /\ FileCount(buffer_manager) > 1
    /\ Finished(buffer_manager, pos, cur_buffer_handle) = "true"

\* C20 (as claimed): with a single file whose source is exhausted, Finished()
\* is true whenever the Position is in the last buffer and its offset has
\* reached or passed the last valid byte, an empty last buffer included.
C20_FinishedAtEnd ==
    (/\ FileCount(buffer_manager) = 1
     /\ Done(buffer_manager)
     /\ cur_buffer_handle.present
     /\ cur_buffer_handle.buffer_idx = pos.buffer_id
     /\ pos.buffer_id = buffer_manager.buffer_count - 1
     /\ pos.pos + 1 >= ActualSize(buffer_manager, pos.buffer_id))
        => Finished(buffer_manager, pos, cur_buffer_handle) = "true"

\* the connections that SetConnection has established
Established == {d \in DOMAIN dbcs : dbcs[d].conn.open}

\* C14: connections established to the same database path that is neither
\* empty nor ":memory:" are on the same database instance; a connection
\* established with an empty or ":memory:" name shares its instance with no
\* other connection, and every request for such a name is made with
\* cache_instance false.
C14_InstanceCache ==
    /\ \A d1, d2 \in Established :
           (/\ dbcs[d1].conn.database = dbcs[d2].conn.database
            /\ dbcs[d1].conn.database \notin {"", ":memory:"})
               => dbcs[d1].conn.db = dbcs[d2].conn.db
    /\ \A d1, d2 \in Established :
           (d1 # d2 /\ dbcs[d1].conn.database \in {"", ":memory:"})
               => dbcs[d1].conn.db # dbcs[d2].conn.db
    /\ request.cache_instance <=> request.database \notin {"", ":memory:"}
    /\ \A p \in DOMAIN instance_cache : p \in {"", ":memory:"} => instance_cache[p] = 0

\* C14 witness: two connections to a.db on one instance, the last request
\* being the one for a.db
C14_Witness ==
    /\ \E d1, d2 \in Established :
           /\ d1 # d2
           /\ dbcs[d1].conn.database = "a.db"
           /\ dbcs[d2].conn.database = "a.db"
           /\ dbcs[d1].conn.db = dbcs[d2].conn.db
    /\ request = [database |-> "a.db", cache_instance |-> TRUE]

\* the value at position i (1-based) of side m
ValueAt(m, i) == m.data[m.sel_vector[i] + 1]

\* the pairs (l.sel_vector[i], r.sel_vector[j]) whose values the operation joins
Expected ==
    {<<l.sel_vector[q[1]], r.sel_vector[q[2]]>> :
        q \in {q \in (1..l.count) \X (1..r.count) :
            CASE op = "Equality"       -> ValueAt(l, q[1]) = ValueAt(r, q[2])
              [] op = "LessThan"       -> ValueAt(l, q[1]) < ValueAt(r, q[2])
              [] op = "LessThanEquals" -> ValueAt(l, q[1]) <= ValueAt(r, q[2])
              [] OTHER                 -> FALSE}}

\* no pair was output twice
NoDuplicates(s) == \A i, j \in 1..Len(s) : s[i] = s[j] => i = j

\* the caller's loop has ended: Operation has returned 0
Stopped == mpc = "idle" /\ mret = 0

\* the join is complete for the operation
Complete == IF op = "Equality" THEN l.pos >= l.count ELSE r.pos >= r.count

\* C15: Equality, called repeatedly from l.pos = r.pos = 0 until it returns
\* 0, outputs over all calls every pair of equal values exactly once and
\* no other pair.
C15_EqualityComplete ==
    op = "Equality" =>
        /\ NoDuplicates(emitted)
        /\ Range(emitted) \subseteq Expected
        /\ Stopped => Range(emitted) = Expected

\* C15 witness: both sides hold a duplicate value, a call has stopped on a
\* full output, and the calls have ended with all four pairs output
C15_Witness ==
    /\ op = "Equality" /\ Stopped
    /\ l.count = 2 /\ r.count = 2
    /\ ValueAt(l, 1) = ValueAt(l, 2) /\ ValueAt(r, 1) = ValueAt(r, 2)
    /\ Len(emitted) = 4
    /\ Len(emitted) > STANDARD_VECTOR_SIZE

\* C16: LessThan and LessThanEquals, called repeatedly from l.pos = r.pos = 0
\* until they return 0, output every pair with left < right (left <= right)
\* exactly once and no other pair; a call that stops on a full output leaves
\* the right cursor where it is and the left cursor one past the pair just
\* output, and the next call starts from these cursors.
C16_LessThanComplete ==
    /\ [](op \in {"LessThan", "LessThanEquals"} =>
            /\ NoDuplicates(emitted)
            /\ Range(emitted) \subseteq Expected
            /\ Stopped => Range(emitted) = Expected)
    /\ [][(op \in {"LessThan", "LessThanEquals"} /\ mpc = "loop" /\ mpc' = "idle"
           /\ mret' = STANDARD_VECTOR_SIZE)
              => /\ r'.pos = r.pos
                 /\ l'.pos = l.pos + 1
                 /\ emitted'[Len(emitted')] = <<l.sel_vector[l.pos + 1], r.sel_vector[r.pos + 1]>>]_vars
    /\ [][(op \in {"LessThan", "LessThanEquals"} /\ mpc = "idle") => (l' = l /\ r' = r)]_vars

\* C16 witness: a LessThanEquals join of two tuples on each side with all
\* four pairs output over more than one call
C16_Witness ==
    /\ op = "LessThanEquals" /\ Stopped
    /\ l.count = 2 /\ r.count = 2
    /\ Len(emitted) = 4
    /\ Len(emitted) > STANDARD_VECTOR_SIZE

\* C17: no call writes a result slot at an index >= STANDARD_VECTOR_SIZE or
\* returns more than STANDARD_VECTOR_SIZE, and every read is inside the
\* sides' counts: the loops read l at l.pos < l.count and r at
\* r.pos < r.count, and never r at r.pos = r.count.
C17_InBounds ==
    /\ ~unsafe
    /\ result_count <= STANDARD_VECTOR_SIZE
    /\ mret <= STANDARD_VECTOR_SIZE
    /\ (mpc = "loop" /\ op = "Equality") => (l.pos < l.count /\ r.pos <= r.count)
    /\ (mpc = "loop" /\ op \in {"LessThan", "LessThanEquals"}) => r.pos < r.count
    /\ mpc = "back" => (l.pos < l.count /\ r.pos <= r.count)

\* C17 witness: an Equality call has returned a full output with the right
\* cursor at the end of the right side
C17_Witness ==
    /\ op = "Equality" /\ mpc = "idle"
    /\ mret = STANDARD_VECTOR_SIZE /\ result_count = STANDARD_VECTOR_SIZE
    /\ r.pos = r.count /\ l.pos < l.count

\* C18: a call returns fewer than STANDARD_VECTOR_SIZE results only when the
\* join is complete afterwards; from then on every call returns 0 and
\* leaves l.pos and r.pos unchanged.
C18_ShortReturnIsFinal ==
    /\ [][(mpc' = "idle" /\ mret' < STANDARD_VECTOR_SIZE) => Complete']_vars
    /\ [][(Complete /\ CallOperation)
              => (mret' = 0 /\ mpc' = "idle" /\ l'.pos = l.pos /\ r'.pos = r.pos)]_vars
    /\ [][Complete => Complete']_vars

\* C18 witness: a call has returned one result, fewer than a full output,
\* and the join is complete
C18_Witness ==
    /\ mpc = "idle" /\ mret > 0 /\ mret < STANDARD_VECTOR_SIZE
    /\ Complete

\* C19: every call of Operation returns, and the caller's loop, calling
\* until Operation returns 0, ends.
C19_Terminates ==
    /\ (mpc # "idle") ~> (mpc = "idle")
    /\ <>[]Stopped

\* C19 witness: an Equality join of all-equal values has ended after the
\* right cursor was stepped back
C19_Witness ==
    /\ op = "Equality" /\ Stopped
    /\ l.count = MaxCount /\ r.count = MaxCount
    /\ \A i \in 1..MaxCount : ValueAt(l, i) = ValueAt(l, 1) /\ ValueAt(r, i) = ValueAt(l, 1)
    /\ Len(emitted) = MaxCount * MaxCount

\* the allocated connections
LiveDbc == {c \in DOMAIN h_dbc : h_dbc[c].live}

\* C21: FreeHandle returns SQL_INVALID_HANDLE and frees nothing for a null
\* handle or a handle type other than ENV, DBC, STMT, DESC; after any
\* allocations and frees every statement an allocated connection refers to
\* is allocated, and so is every descriptor such a statement uses.
C21_FreeHandle ==
    /\ [](\A c \in LiveDbc : \A s \in h_dbc[c].vec_stmt_ref :
            /\ h_stmt[s].live
            /\ h_stmt[s].desc # 0 => h_desc[h_stmt[s].desc].live)
    /\ [][(h_ret'.op = "SQLFreeHandle"
           /\ (h_ret'.null \/ h_ret'.type \notin HandleTypes))
              => /\ h_ret'.code = "SQL_INVALID_HANDLE"
                 /\ UNCHANGED <<h_env, h_dbc, h_stmt, h_desc>>]_vars
    /\ [][(h_ret'.op = "SQLFreeHandle"
           /\ ~h_ret'.null /\ h_ret'.type \in HandleTypes)
              => h_ret'.code = "SQL_SUCCESS"]_vars

\* C21 witness: a statement that used an explicit descriptor has been freed
\* while its connection is allocated and holds another statement
C21_Witness ==
    /\ h_ret = [op |-> "SQLFreeHandle", type |-> "SQL_HANDLE_STMT", null |-> FALSE,
                code |-> "SQL_SUCCESS"]
    /\ ~h_stmt[1].live
    /\ \E c \in LiveDbc : h_dbc[c].vec_stmt_ref = {2}
    /\ \E d \in DOMAIN h_desc : h_desc[d].live /\ h_stmt[2].desc = d

\* C22: for a version passed as major, major*10 + minor or
\* major*100 + minor*10, ExtractMajorVersion yields the major version, and
\* SQLSetEnvAttr(SQL_ATTR_ODBC_VERSION) on an environment returns
\* SQL_SUCCESS exactly when the major version is 2 or 3, and then has
\* stored it.
C22_MajorVersion ==
    (attr_ret.code # "none" /\ attr_ret.env # 0) =>
        /\ attr_ret.extracted = attr_ret.major
        /\ attr_ret.code = "SQL_SUCCESS" <=> attr_ret.major \in {2, 3}
        /\ attr_ret.code = "SQL_SUCCESS" => odbc_version = attr_ret.major

====
